---------------------------- MODULE Spec2Model ----------------------------
(* A model of mysql_mcp_server/server.py: the configuration resolver       *)
(* get_db_config and the three database handlers list_resources,           *)
(* read_resource and call_tool, run against an abstract MySQL server.       *)
(* Python strings are sequences of one-character strings; None, str and    *)
(* int values are tagged records so that a dict can hold any of them.      *)
EXTENDS Integers, Sequences, FiniteSets, TLC

(***************************************************************************)
(* Bounds of the model                                                     *)
(***************************************************************************)
MaxArgs == 1
MaxEnvSet == 1
MaxRequests == 2
MaxRows == 1

(***************************************************************************)
(* Python values and string literals                                       *)
(***************************************************************************)
PyNone == [tag |-> "none", s |-> <<>>, n |-> 0]
PyStr(str) == [tag |-> "str", s |-> str, n |-> 0]
PyInt(i) == [tag |-> "int", s |-> <<>>, n |-> i]
PyTrue == [tag |-> "bool", s |-> <<>>, n |-> 1]

\* bool(v) of a Python value: None, "" and 0 are falsy
Truthy(v) ==
    CASE v.tag = "none" -> FALSE
      [] v.tag = "str" -> v.s # <<>>
      [] OTHER -> v.n # 0

S_localhost == <<"l","o","c","a","l","h","o","s","t">>
S_3306 == <<"3","3","0","6">>
S_utf8mb4 == <<"u","t","f","8","m","b","4">>
S_utf8mb4_unicode_ci ==
    <<"u","t","f","8","m","b","4","_","u","n","i","c","o","d","e","_","c","i">>
S_TRADITIONAL == <<"T","R","A","D","I","T","I","O","N","A","L">>

DigitVal ==
    [c \in {"0","1","2","3","4","5","6","7","8","9"} |->
        CASE c = "0" -> 0 [] c = "1" -> 1 [] c = "2" -> 2 [] c = "3" -> 3
          [] c = "4" -> 4 [] c = "5" -> 5 [] c = "6" -> 6 [] c = "7" -> 7
          [] c = "8" -> 8 [] OTHER -> 9]

\* int(s) accepts s: here a non-empty string of decimal digits
IntParses(str) ==
    /\ str # <<>>
    /\ \A i \in 1..Len(str) : str[i] \in DOMAIN DigitVal

RECURSIVE IntValue(_)
IntValue(str) ==
    IF str = <<>> THEN 0
    ELSE 10 * IntValue(SubSeq(str, 1, Len(str) - 1)) + DigitVal[str[Len(str)]]

(***************************************************************************)
(* Results of a call: a returned value, a raised exception or sys.exit     *)
(***************************************************************************)
EmptyDict == [k \in {} |-> PyNone]

\* kind: "none" (nothing called yet), "return", "raise" or "exit"; a returned
\* value sits in the field of its type: config (get_db_config), resources
\* (list_resources), texts (read_resource: one text; call_tool: a list)
NoResult ==
    [kind |-> "none", exc |-> "", msg |-> "", code |-> 0, config |-> EmptyDict,
     resources |-> <<>>, texts |-> <<>>]
Raise(exc, msg) == [NoResult EXCEPT !.kind = "raise", !.exc = exc, !.msg = msg]
SysExit(code) ==
    [NoResult EXCEPT !.kind = "exit", !.exc = "SystemExit", !.code = code]
ReturnConfig(config) == [NoResult EXCEPT !.kind = "return", !.config = config]
ReturnResources(resources) ==
    [NoResult EXCEPT !.kind = "return", !.resources = resources]
ReturnTexts(texts) == [NoResult EXCEPT !.kind = "return", !.texts = texts]

MsgMissingConfig == "Missing required database configuration"
MsgInvalidLiteral == "invalid literal for int()"

(***************************************************************************)
(* get_db_config                                                           *)
(***************************************************************************)
EnvVars ==
    {"MYSQL_HOST", "MYSQL_PORT", "MYSQL_USER", "MYSQL_PASSWORD",
     "MYSQL_DATABASE", "MYSQL_CHARSET", "MYSQL_COLLATION", "MYSQL_SQL_MODE"}

ShortOpts == {"-h", "-p", "-u", "-d", "-P"}
LongOpts ==
    {"--host", "--port", "--user", "--database", "--password", "--charset",
     "--collation"}

\* getopt.getopt(sys.argv[1:], ...): argv is the list of (option, value)
\* pairs on the command line; an option outside the declared ones is a
\* GetoptError
GetoptFails(args) ==
    \E i \in 1..Len(args) : args[i][1] \notin (ShortOpts \cup LongOpts)

\* os.getenv(name, default)
Getenv(env, name, default) ==
    IF name \in DOMAIN env THEN PyStr(env[name]) ELSE default

\* the dict literal of lines 29-39, its port entry left unconverted
InitialConfig(env) ==
    [k \in {"host", "port", "user", "password", "database", "charset",
            "collation", "autocommit", "sql_mode"} |->
        CASE k = "host" -> Getenv(env, "MYSQL_HOST", PyStr(S_localhost))
          [] k = "port" -> Getenv(env, "MYSQL_PORT", PyStr(S_3306))
          [] k = "user" -> Getenv(env, "MYSQL_USER", PyNone)
          [] k = "password" -> Getenv(env, "MYSQL_PASSWORD", PyNone)
          [] k = "database" -> Getenv(env, "MYSQL_DATABASE", PyNone)
          [] k = "charset" -> Getenv(env, "MYSQL_CHARSET", PyStr(S_utf8mb4))
          [] k = "collation" ->
                Getenv(env, "MYSQL_COLLATION", PyStr(S_utf8mb4_unicode_ci))
          [] k = "autocommit" -> PyTrue
          [] OTHER -> Getenv(env, "MYSQL_SQL_MODE", PyStr(S_TRADITIONAL))]

\* the key an option sets, by the if/elif chain of lines 43-56
OptKey(opt) ==
    CASE opt \in {"-h", "--host"} -> "host"
      [] opt \in {"-p", "--port"} -> "port"
      [] opt \in {"-u", "--user"} -> "user"
      [] opt \in {"-P", "--password"} -> "password"
      [] opt \in {"-d", "--database"} -> "database"
      [] opt = "--charset" -> "charset"
      [] opt = "--collation" -> "collation"
      [] OTHER -> "ignored"

\* the override loop: each option in command-line order; int(arg) of a port
\* option may raise, which ends the loop
RECURSIVE OverrideWithArgs(_, _)
OverrideWithArgs(config, opts) ==
    IF opts = <<>> THEN [raised |-> FALSE, config |-> config]
    ELSE LET opt == opts[1][1]
             arg == opts[1][2]
             key == OptKey(opt)
         IN  IF key = "port"
             THEN IF IntParses(arg)
                  THEN OverrideWithArgs(
                           [config EXCEPT !["port"] = PyInt(IntValue(arg))],
                           Tail(opts))
                  ELSE [raised |-> TRUE, config |-> config]
             ELSE IF key = "ignored"
             THEN OverrideWithArgs(config, Tail(opts))
             ELSE OverrideWithArgs([config EXCEPT ![key] = PyStr(arg)],
                                   Tail(opts))

\* {k: v for k, v in config.items() if v is not None}
RemoveNone(config) ==
    [k \in {j \in DOMAIN config : config[j].tag # "none"} |-> config[k]]

\* config.get(key)
DictGet(config, key) ==
    IF key \in DOMAIN config THEN config[key] ELSE PyNone

\* the check with the database forgotten
HasRequiredUserPassword(config) ==
    /\ Truthy(DictGet(config, "user"))
    /\ Truthy(DictGet(config, "password"))

\* all([config.get("user"), config.get("password"), config.get("database")])
HasRequired(config) ==
    /\ Truthy(DictGet(config, "user"))
    /\ Truthy(DictGet(config, "password"))
    /\ Truthy(DictGet(config, "database"))

\* int(os.getenv("MYSQL_PORT", "3306")), evaluated while the dict is built
EnvPortParses(env) ==
    IntParses(Getenv(env, "MYSQL_PORT", PyStr(S_3306)).s)

get_db_config(env, args) ==
    IF GetoptFails(args) THEN SysExit(2)
    ELSE IF ~EnvPortParses(env) THEN Raise("ValueError", MsgInvalidLiteral)
    ELSE LET raw == InitialConfig(env)
             base == [raw EXCEPT !["port"] = PyInt(IntValue(raw["port"].s))]
             merged == OverrideWithArgs(base, args)
         IN  IF merged.raised THEN Raise("ValueError", MsgInvalidLiteral)
             ELSE IF ~HasRequired(RemoveNone(merged.config))
             THEN Raise("ValueError", MsgMissingConfig)
             ELSE ReturnConfig(RemoveNone(merged.config))


(***************************************************************************)
(* The MySQL server and the connector, as far as the handlers use them     *)
(***************************************************************************)
T_a == <<"a">>
T_a_b == <<"a","/","b">>
TableNames == {T_a, T_a_b}

\* SHOW TABLES reports the tables in name order
TableOrder == <<T_a, T_a_b>>

\* characters of an identifier that needs no quoting
IdentChars == {"a", "b"}

\* a database: the existing tables, each with its number of rows
EmptyDb == [t \in {} |-> 0]
Databases == UNION {[S -> 0..MaxRows] : S \in SUBSET TableNames}

\* an SQL text: leading whitespace characters, keywords as written, the
\* table it names, whether that name is backtick-quoted, its LIMIT (0: none)
Sql(lead, words, table, quoted, limit) ==
    [lead |-> lead, words |-> words, table |-> table, quoted |-> quoted,
     limit |-> limit]
S_empty == Sql(0, <<>>, <<>>, FALSE, 0)
S_blank == Sql(1, <<>>, <<>>, FALSE, 0)

\* str.upper(), word by word
Upper(word) ==
    CASE word = "show" -> "SHOW"
      [] word = "tables" -> "TABLES"
      [] word = "select" -> "SELECT"
      [] OTHER -> word
UpperWords(words) == [i \in 1..Len(words) |-> Upper(words[i])]

ListTables(view) == SelectSeq(TableOrder, LAMBDA t : t \in DOMAIN view)

NamesTable(sql, view) ==
    /\ sql.table \in DOMAIN view
    /\ sql.quoted \/ \A i \in 1..Len(sql.table) : sql.table[i] \in IdentChars

Min(a, b) == IF a < b THEN a ELSE b

ExecError ==
    [ok |-> FALSE, description |-> FALSE, tables |-> <<>>, table |-> <<>>,
     nrows |-> 0, rowcount |-> -1, view |-> EmptyDb, ddl |-> FALSE]
ExecRows(table, nrows, view) ==
    [ExecError EXCEPT !.ok = TRUE, !.description = TRUE, !.table = table,
                      !.nrows = nrows, !.view = view]
ExecTables(tables, view) ==
    [ExecError EXCEPT !.ok = TRUE, !.description = TRUE, !.tables = tables,
                      !.view = view]
ExecCount(rowcount, view, ddl) ==
    [ExecError EXCEPT !.ok = TRUE, !.rowcount = rowcount, !.view = view,
                      !.ddl = ddl]

\* what the server does with one statement on a connection whose view of the
\* data is view
ExecSql(sql, view) ==
    LET w == UpperWords(sql.words)
        t == sql.table
    IN  CASE w = <<"SHOW", "TABLES">> -> ExecTables(ListTables(view), view)
          [] w = <<"SELECT">> /\ NamesTable(sql, view) ->
                ExecRows(t, IF sql.limit = 0 THEN view[t]
                            ELSE Min(view[t], sql.limit), view)
          [] w = <<"INSERT">> /\ NamesTable(sql, view) ->
                ExecCount(1, [view EXCEPT ![t] = @ + 1], FALSE)
          [] w = <<"DELETE">> /\ NamesTable(sql, view) ->
                ExecCount(view[t], [view EXCEPT ![t] = 0], FALSE)
          [] w = <<"CREATE">> /\ t \in TableNames \ DOMAIN view ->
                ExecCount(0, [x \in DOMAIN view \cup {t} |->
                                 IF x = t THEN 0 ELSE view[x]], TRUE)
          [] w = <<"DROP">> /\ NamesTable(sql, view) ->
                ExecCount(0, [x \in DOMAIN view \ {t} |-> view[x]], TRUE)
          [] OTHER -> ExecError

(***************************************************************************)
(* The values the handlers return                                          *)
(***************************************************************************)
S_mysql == <<"m","y","s","q","l",":","/","/">>
S_http == <<"h","t","t","p",":","/","/">>
S_data == <<"/","d","a","t","a">>
S_Table == <<"T","a","b","l","e",":"," ">>
S_DataInTable == <<"D","a","t","a"," ","i","n"," ","t","a","b","l","e",":"," ">>

\* Resource(uri=f"mysql://{table[0]}/data", name=..., mimeType=...,
\* description=...)
ResourceUri(table) == S_mysql \o table \o S_data
Resource(table) ==
    [uri |-> ResourceUri(table), name |-> S_Table \o table,
     mimeType |-> "text/plain", description |-> S_DataInTable \o table]

NoText ==
    [form |-> "", database |-> <<>>, names |-> <<>>, table |-> <<>>,
     nrows |-> 0, rowcount |-> 0]
\* "Tables_in_<database>" and one line per table
TextTables(database, names) ==
    [NoText EXCEPT !.form = "tables", !.database = database, !.names = names]
\* the header line of the column names and one comma-joined line per row
TextRows(table, nrows) ==
    [NoText EXCEPT !.form = "rows", !.table = table, !.nrows = nrows]
\* "Query executed successfully. Rows affected: <rowcount>"
TextAffected(rowcount) ==
    [NoText EXCEPT !.form = "affected", !.rowcount = rowcount]
\* "Query executed but error fetching results: ..."
TextFetchError == [NoText EXCEPT !.form = "fetch_error"]
\* "Error executing query: ..."
TextError == [NoText EXCEPT !.form = "error"]

MsgInvalidScheme == "Invalid URI scheme"
MsgUnknownTool == "Unknown tool"
MsgQueryRequired == "Query is required"
MsgDatabaseError == "Database error"


(***************************************************************************)
(* State                                                                   *)
(***************************************************************************)
VARIABLES
    environ,    \* os.environ: the variables that are set, with their values
    argv,       \* sys.argv[1:] as (option, value) pairs
    db,         \* the committed content of the database
    pc,         \* "idle", or the driver call the running handler makes next
    handler,    \* the handler that runs, or ran last
    request,    \* its arguments
    config,     \* the dict get_db_config returned to it
    stmt,       \* the statement it executes
    conns,      \* the connections that are open
    conn,       \* the connection of the running handler
    txn,        \* that connection's view of the data
    cursor,     \* its cursor
    pending,    \* the value or exception leaving the with blocks
    outcome,    \* what the last finished call returned or raised
    nReq,       \* requests started so far
    opened,     \* connections the current request has opened
    attempts,   \* connect calls the current request has made
    dbFailed,   \* a driver call of the current request has failed
    didCommit,  \* the current request has committed
    dbAtStart,  \* db when the current request started
    listed,     \* the uris the last successful list_resources returned
    prevWrite   \* the statement of the previous request, when it reported
                \* its affected rows, and db before it

vars ==
    <<environ, argv, db, pc, handler, request, config, stmt, conns, conn, txn,
      cursor, pending, outcome, nReq, opened, attempts, dbFailed, didCommit,
      dbAtStart, listed, prevWrite>>

NoConn == [req |-> 0, seq |-> 0]
NoCursor ==
    [open |-> FALSE, description |-> FALSE, tables |-> <<>>, table |-> <<>>,
     nrows |-> 0, rowcount |-> -1]
NoPending == [kind |-> "none", result |-> NoResult]
PendingReturn(result) == [kind |-> "return", result |-> result]
PendingError == [kind |-> "error", result |-> NoResult]
NoArguments == [k \in {} |-> S_empty]
NoRequest == [name |-> "", arguments |-> NoArguments, uri |-> <<>>]
NoWrite == [valid |-> FALSE, stmt |-> S_empty, before |-> EmptyDb]

(***************************************************************************)
(* read_resource and call_tool up to their try blocks                      *)
(***************************************************************************)
UriPrefixLen == 8

StartsWith(str, prefix) ==
    /\ Len(str) >= Len(prefix)
    /\ SubSeq(str, 1, Len(prefix)) = prefix

\* str.split('/')[0]
FirstSegment(str) ==
    IF \E i \in 1..Len(str) : str[i] = "/"
    THEN LET first == CHOOSE i \in 1..Len(str) :
                          /\ str[i] = "/"
                          /\ \A j \in 1..(i - 1) : str[j] # "/"
         IN  SubSeq(str, 1, first - 1)
    ELSE str

\* the slice taken one character early: uri_str[7:]
TableOfUriShortSlice(uri_str) ==
    FirstSegment(SubSeq(uri_str, UriPrefixLen, Len(uri_str)))

\* parts = uri_str[8:].split('/'); table = parts[0]
TableOfUri(uri_str) ==
    FirstSegment(SubSeq(uri_str, UriPrefixLen + 1, Len(uri_str)))

RowLimit == 100

\* f"SELECT * FROM {table} LIMIT 100"
SelectFrom(table) == Sql(0, <<"SELECT">>, table, FALSE, RowLimit)

\* what read_resource raises before its try block (NoResult: nothing)
ReadResourceEntry(env, args, uri_str) ==
    LET cfg == get_db_config(env, args)
    IN  IF cfg.kind # "return" THEN cfg
        ELSE IF ~StartsWith(uri_str, S_mysql)
        THEN Raise("ValueError", MsgInvalidScheme)
        ELSE NoResult

\* arguments.get("query")
ArgumentsGet(arguments) ==
    IF "query" \in DOMAIN arguments
    THEN [none |-> FALSE, text |-> arguments["query"]]
    ELSE [none |-> TRUE, text |-> S_empty]

\* not query
QueryFalsy(query) ==
    \/ query.none
    \/ query.text.lead = 0 /\ query.text.words = <<>> /\ query.text.table = <<>>

\* what call_tool raises before its try block (NoResult: nothing)
CallToolEntry(env, args, name, arguments) ==
    LET cfg == get_db_config(env, args)
    IN  IF cfg.kind # "return" THEN cfg
        ELSE IF name # "execute_sql" THEN Raise("ValueError", MsgUnknownTool)
        ELSE IF QueryFalsy(ArgumentsGet(arguments))
        THEN Raise("ValueError", MsgQueryRequired)
        ELSE NoResult

\* what list_resources raises before its try block (NoResult: nothing)
ListResourcesEntry(env, args) ==
    LET cfg == get_db_config(env, args)
    IN  IF cfg.kind # "return" THEN cfg ELSE NoResult

\* query.strip().upper().startswith("SHOW TABLES")
IsShowTables(query) ==
    LET w == UpperWords(query.words)
    IN  Len(w) >= 2 /\ w[1] = "SHOW" /\ w[2] = "TABLES"

\* the branch a handler takes once cursor.execute has returned
AfterExecute(h, query, description) ==
    CASE h = "list_resources" -> "fetch_tables"
      [] h = "read_resource" -> "fetch_rows"
      [] IsShowTables(query) -> "fetch_tables"
      [] description -> "fetch_rows"
      [] OTHER -> "commit"

\* except clauses that let the failure out
ListResourcesOnErrorRaises == Raise("Error", MsgDatabaseError)
CallToolOnErrorRaises == Raise("Error", MsgDatabaseError)

\* the except clause of each handler for mysql.connector.Error
ListResourcesOnError == ReturnResources(<<>>)
ReadResourceOnError == Raise("RuntimeError", MsgDatabaseError)
CallToolOnError == ReturnTexts(<<TextError>>)
OnError(h) ==
    CASE h = "list_resources" -> ListResourcesOnError
      [] h = "read_resource" -> ReadResourceOnError
      [] OTHER -> CallToolOnError

\* a close that an exception skips
WithExitOnReturnOnly(open, c, leaving) ==
    IF leaving.kind = "error" THEN open ELSE open \ {c}

\* the connections left open when the with blocks are left
WithExit(open, c, leaving) == open \ {c}


(***************************************************************************)
(* Inputs                                                                  *)
(***************************************************************************)
V_e == <<"e">>
V_a == <<"a">>
V_x == <<"x">>
V_3307 == <<"3","3","0","7">>
V_3308 == <<"3","3","0","8">>

EnvValues(name) ==
    CASE name = "MYSQL_PORT" -> {V_3307, V_x}
      [] name \in {"MYSQL_USER", "MYSQL_PASSWORD", "MYSQL_DATABASE"} ->
            {<<>>, V_e}
      [] OTHER -> {V_e}

\* settings of at most MaxEnvSet variables
EnvSettings ==
    UNION {{env \in [S -> {<<>>, V_e, V_3307, V_x}] :
                \A name \in S : env[name] \in EnvValues(name)} :
           S \in {X \in SUBSET EnvVars : Cardinality(X) <= MaxEnvSet}}

OptValues(opt) ==
    CASE OptKey(opt) = "port" -> {V_3308, V_x}
      [] OptKey(opt) \in {"user", "password", "database"} -> {<<>>, V_a}
      [] OTHER -> {V_a}

Options ==
    UNION {{<<opt, arg>> : arg \in OptValues(opt)} :
           opt \in ShortOpts \cup LongOpts \cup {"-x"}}

\* at most MaxArgs options
ArgSettings == UNION {[1..n -> Options] : n \in 0..MaxArgs}

EnvCredentials ==
    ("MYSQL_USER" :> V_e) @@ ("MYSQL_PASSWORD" :> V_e)
        @@ ("MYSQL_DATABASE" :> V_e)
ArgCredentials == << <<"-u", V_a>>, <<"-P", V_a>>, <<"-d", V_a>> >>

\* an environment with the credentials or without them, and some more
\* variables set; a command line with the credentials or without them, and
\* some more options before or after them
Environments ==
    {more @@ base : base \in {EmptyDict, EnvCredentials}, more \in EnvSettings}
ArgLists ==
    UNION {{more \o base, base \o more} :
           base \in {<<>>, ArgCredentials}, more \in ArgSettings}

\* the process configurations the handlers are run under
ServerConfigs ==
    {[environ |-> EnvCredentials, argv |-> <<>>],
     [environ |-> EmptyDict, argv |-> <<>>],
     [environ |-> EmptyDict, argv |-> ArgCredentials],
     [environ |-> EnvCredentials @@ ("MYSQL_PORT" :> V_x), argv |-> <<>>],
     [environ |-> EnvCredentials, argv |-> << <<"-x", V_a>> >>]}

Uris ==
    {ResourceUri(t) : t \in TableNames}
        \cup {S_http \o T_a \o S_data, S_mysql \o T_a, S_mysql}

ToolNames == {"execute_sql", "invalid_tool"}

Queries ==
    {S_empty, S_blank, Sql(0, <<"SHOW", "TABLES">>, <<>>, FALSE, 0),
     Sql(1, <<"show", "tables">>, <<>>, FALSE, 0),
     Sql(0, <<"BOGUS">>, <<>>, FALSE, 0)}
        \cup {Sql(0, <<w>>, t, TRUE, 0) :
                 w \in {"SELECT", "INSERT", "DELETE", "CREATE", "DROP"},
                 t \in TableNames}

ArgumentDicts == {NoArguments} \cup {[k \in {"query"} |-> q] : q \in Queries}

(***************************************************************************)
(* Initial states                                                          *)
(***************************************************************************)
InitRest ==
    /\ pc = "idle"
    /\ handler = "none"
    /\ request = NoRequest
    /\ config = EmptyDict
    /\ stmt = S_empty
    /\ conns = {}
    /\ conn = NoConn
    /\ txn = EmptyDb
    /\ cursor = NoCursor
    /\ pending = NoPending
    /\ outcome = NoResult
    /\ nReq = 0
    /\ opened = 0
    /\ attempts = 0
    /\ dbFailed = FALSE
    /\ didCommit = FALSE
    /\ listed = {}
    /\ prevWrite = NoWrite

Init ==
    /\ \E c \in ServerConfigs : environ = c.environ /\ argv = c.argv
    /\ db \in Databases
    /\ dbAtStart = db
    /\ InitRest

InitConfig ==
    /\ environ \in Environments
    /\ argv \in ArgLists
    /\ db = EmptyDb
    /\ dbAtStart = db
    /\ InitRest

(***************************************************************************)
(* Actions                                                                 *)
(***************************************************************************)
\* get_db_config called on its own, as main() does at startup
CallGetDbConfig ==
    /\ handler = "none"
    /\ handler' = "get_db_config"
    /\ outcome' = get_db_config(environ, argv)
    /\ UNCHANGED <<environ, argv, db, pc, request, config, stmt, conns, conn,
                   txn, cursor, pending, nReq, opened, attempts, dbFailed,
                   didCommit, dbAtStart, listed, prevWrite>>

\* a handler is called: it runs up to its try block, where entry is what it
\* raises on the way (NoResult when it gets there)
StartRequest(h, req, entry, statement) ==
    /\ pc = "idle"
    /\ nReq < MaxRequests
    /\ outcome.kind # "exit"
    /\ handler' = h
    /\ request' = req
    /\ nReq' = nReq + 1
    /\ opened' = 0
    /\ attempts' = 0
    /\ dbFailed' = FALSE
    /\ didCommit' = FALSE
    /\ dbAtStart' = db
    /\ prevWrite' =
        IF /\ handler = "call_tool"
           /\ outcome.kind = "return"
           /\ outcome.texts[1].form = "affected"
        THEN [valid |-> TRUE, stmt |-> stmt, before |-> dbAtStart]
        ELSE NoWrite
    /\ IF entry.kind = "none"
       THEN /\ pc' = "connect"
            /\ config' = get_db_config(environ, argv).config
            /\ stmt' = statement
            /\ outcome' = NoResult
       ELSE /\ pc' = "idle"
            /\ config' = EmptyDict
            /\ stmt' = S_empty
            /\ outcome' = entry
    /\ UNCHANGED <<environ, argv, db, conns, conn, txn, cursor, pending,
                   listed>>

BeginListResources ==
    StartRequest("list_resources", NoRequest,
                 ListResourcesEntry(environ, argv),
                 Sql(0, <<"SHOW", "TABLES">>, <<>>, FALSE, 0))

BeginReadResource ==
    \E uri \in Uris :
        StartRequest("read_resource", [NoRequest EXCEPT !.uri = uri],
                     ReadResourceEntry(environ, argv, uri),
                     SelectFrom(TableOfUri(uri)))

BeginCallTool ==
    \E name \in ToolNames, arguments \in ArgumentDicts :
        LET query == ArgumentsGet(arguments).text
        IN  /\ ~(/\ query.words = <<"INSERT">>
                 /\ query.table \in DOMAIN db
                 /\ db[query.table] >= MaxRows)
            /\ StartRequest("call_tool",
                            [NoRequest EXCEPT !.name = name,
                                              !.arguments = arguments],
                            CallToolEntry(environ, argv, name, arguments),
                            query)

\* connect(**config), and conn.cursor() on the connection
Connect ==
    /\ pc = "connect"
    /\ attempts' = attempts + 1
    /\ \E ok \in BOOLEAN :
        IF ok
        THEN LET c == [req |-> nReq, seq |-> opened + 1]
             IN  /\ conn' = c
                 /\ conns' = conns \cup {c}
                 /\ opened' = opened + 1
                 /\ txn' = db
                 /\ cursor' = [NoCursor EXCEPT !.open = TRUE]
                 /\ pc' = "execute"
                 /\ UNCHANGED <<pending, dbFailed>>
        ELSE /\ pending' = PendingError
             /\ dbFailed' = TRUE
             /\ pc' = "exit_with"
             /\ UNCHANGED <<conn, conns, opened, txn, cursor>>
    /\ UNCHANGED <<environ, argv, db, handler, request, config, stmt, outcome,
                   nReq, didCommit, dbAtStart, listed, prevWrite>>

\* cursor.execute(...)
Execute ==
    /\ pc = "execute"
    /\ \E fail \in BOOLEAN :
        LET r == IF fail THEN ExecError ELSE ExecSql(stmt, txn)
            auto == Truthy(DictGet(config, "autocommit"))
        IN  IF r.ok
            THEN /\ cursor' = [cursor EXCEPT !.description = r.description,
                                             !.tables = r.tables,
                                             !.table = r.table,
                                             !.nrows = r.nrows,
                                             !.rowcount = r.rowcount]
                 /\ txn' = r.view
                 /\ db' = IF auto \/ r.ddl THEN r.view ELSE db
                 /\ pc' = AfterExecute(handler, stmt, r.description)
                 /\ UNCHANGED <<pending, dbFailed>>
            ELSE /\ pending' = PendingError
                 /\ dbFailed' = TRUE
                 /\ pc' = "exit_with"
                 /\ UNCHANGED <<cursor, txn, db>>
    /\ UNCHANGED <<environ, argv, handler, request, config, stmt, conns, conn,
                   outcome, nReq, opened, attempts, didCommit, dbAtStart,
                   listed, prevWrite>>

\* the value a handler returns once cursor.fetchall() has returned
FetchResult(h, branch, cfg, cur) ==
    CASE h = "list_resources" ->
            ReturnResources([i \in 1..Len(cur.tables) |->
                                Resource(cur.tables[i])])
      [] h = "read_resource" -> ReturnTexts(<<TextRows(cur.table, cur.nrows)>>)
      [] branch = "fetch_tables" ->
            ReturnTexts(<<TextTables(cfg["database"].s, cur.tables)>>)
      [] OTHER -> ReturnTexts(<<TextRows(cur.table, cur.nrows)>>)

\* where a failing cursor.fetchall() goes: call_tool's inner except returns
\* a text, everywhere else the exception leaves the with blocks
FetchFailure(h, branch) ==
    IF h = "call_tool" /\ branch = "fetch_rows"
    THEN PendingReturn(ReturnTexts(<<TextFetchError>>))
    ELSE PendingError

\* cursor.fetchall()
FetchAll ==
    /\ pc \in {"fetch_tables", "fetch_rows"}
    /\ \E ok \in BOOLEAN :
        IF ok
        THEN /\ pending' = PendingReturn(FetchResult(handler, pc, config, cursor))
             /\ UNCHANGED dbFailed
        ELSE /\ pending' = FetchFailure(handler, pc)
             /\ dbFailed' = TRUE
    /\ pc' = "exit_with"
    /\ UNCHANGED <<environ, argv, db, handler, request, config, stmt, conns,
                   conn, txn, cursor, outcome, nReq, opened, attempts,
                   didCommit, dbAtStart, listed, prevWrite>>

\* the message with the number of rows left out
NonSelectResultNoCount(rowcount) == ReturnTexts(<<TextAffected(0)>>)

\* the value call_tool returns for a statement without a result set
NonSelectResult(rowcount) == ReturnTexts(<<TextAffected(rowcount)>>)

\* conn.commit() of call_tool's last branch, and its return
Commit ==
    /\ pc = "commit"
    /\ \E ok \in BOOLEAN :
        IF ok
        THEN /\ db' = txn
             /\ didCommit' = TRUE
             /\ pending' = PendingReturn(NonSelectResult(cursor.rowcount))
             /\ UNCHANGED dbFailed
        ELSE /\ pending' = PendingError
             /\ dbFailed' = TRUE
             /\ UNCHANGED <<db, didCommit>>
    /\ pc' = "exit_with"
    /\ UNCHANGED <<environ, argv, handler, request, config, stmt, conns, conn,
                   txn, cursor, outcome, nReq, opened, attempts, dbAtStart,
                   listed, prevWrite>>

\* the with blocks are left, by a return or by an exception: the cursor and
\* the connection are closed, then the handler returns or its except clause
\* runs
ExitWith ==
    /\ pc = "exit_with"
    /\ conns' = WithExit(conns, conn, pending)
    /\ conn' = NoConn
    /\ cursor' = NoCursor
    /\ txn' = EmptyDb
    /\ outcome' = IF pending.kind = "return" THEN pending.result
                  ELSE OnError(handler)
    /\ listed' = IF handler = "list_resources"
                 THEN {outcome'.resources[i].uri :
                          i \in 1..Len(outcome'.resources)}
                 ELSE listed
    /\ pending' = NoPending
    /\ pc' = "idle"
    /\ UNCHANGED <<environ, argv, db, handler, request, config, stmt, nReq,
                   opened, attempts, dbFailed, didCommit, dbAtStart,
                   prevWrite>>

Next ==
    \/ BeginListResources
    \/ BeginReadResource
    \/ BeginCallTool
    \/ Connect
    \/ Execute
    \/ FetchAll
    \/ Commit
    \/ ExitWith

Spec == Init /\ [][Next]_vars

NextConfig == CallGetDbConfig

SpecConfig == InitConfig /\ [][NextConfig]_vars


(***************************************************************************)
(* Properties of get_db_config (checked under SpecConfig)                  *)
(***************************************************************************)
Called == handler = "get_db_config"

ArgGiven(key) == \E i \in 1..Len(argv) : OptKey(argv[i][1]) = key

\* the value of the last option that sets key
LastArg(key) ==
    LET last == CHOOSE i \in 1..Len(argv) :
                    /\ OptKey(argv[i][1]) = key
                    /\ \A j \in (i + 1)..Len(argv) : OptKey(argv[j][1]) # key
    IN  argv[last][2]

EnvVarOf(key) ==
    CASE key = "host" -> "MYSQL_HOST"
      [] key = "port" -> "MYSQL_PORT"
      [] key = "user" -> "MYSQL_USER"
      [] key = "password" -> "MYSQL_PASSWORD"
      [] key = "database" -> "MYSQL_DATABASE"
      [] key = "charset" -> "MYSQL_CHARSET"
      [] key = "collation" -> "MYSQL_COLLATION"
      [] OTHER -> "MYSQL_SQL_MODE"

HasDefault(key) == key \in {"host", "port", "charset", "collation", "sql_mode"}
DefaultOf(key) ==
    CASE key = "host" -> S_localhost
      [] key = "port" -> S_3306
      [] key = "charset" -> S_utf8mb4
      [] key = "collation" -> S_utf8mb4_unicode_ci
      [] OTHER -> S_TRADITIONAL

\* the setting has a value: from an option, the environment or a default
Given(key) ==
    ArgGiven(key) \/ EnvVarOf(key) \in DOMAIN environ \/ HasDefault(key)

\* the string the precedence rule selects for a setting that has a value
Selected(key) ==
    IF ArgGiven(key) THEN LastArg(key)
    ELSE IF EnvVarOf(key) \in DOMAIN environ THEN environ[EnvVarOf(key)]
    ELSE DefaultOf(key)

\* that string as the value the config holds
SelectedValue(key) ==
    IF key = "port" THEN PyInt(IntValue(Selected(key)))
    ELSE PyStr(Selected(key))

CredentialAbsent ==
    \E key \in {"user", "password", "database"} :
        ~Given(key) \/ Selected(key) = <<>>

OptionsKnown ==
    \A i \in 1..Len(argv) :
        argv[i][1] \in {"-h", "--host", "-p", "--port", "-u", "--user", "-P",
                        "--password", "-d", "--database", "--charset",
                        "--collation"}

IsNumber(str) ==
    /\ Len(str) > 0
    /\ \A i \in 1..Len(str) :
          str[i] \in {"0", "1", "2", "3", "4", "5", "6", "7", "8", "9"}

PortArgsAreNumbers ==
    \A i \in 1..Len(argv) :
        argv[i][1] \in {"-p", "--port"} => IsNumber(argv[i][2])

EnvPortIsNumber ==
    "MYSQL_PORT" \in DOMAIN environ => IsNumber(environ["MYSQL_PORT"])

\* C1 as claimed: on a well-formed command line that leaves no credential
\* out and whose selected port is a number, get_db_config returns a config
\* in which every setting holds the value the precedence rule selects: the
\* argument if there is one whatever the environment holds, else the
\* environment value, else the default.
C1_PrecedenceWhateverEnv ==
    (/\ Called
     /\ OptionsKnown
     /\ PortArgsAreNumbers
     /\ IsNumber(Selected("port"))
     /\ ~CredentialAbsent)
        => /\ outcome.kind = "return"
           /\ \A key \in {"host", "port", "user", "password", "database",
                          "charset", "collation", "sql_mode"} :
                 /\ key \in DOMAIN outcome.config
                 /\ outcome.config[key] = SelectedValue(key)

\* C1, what the code does: the same, provided that MYSQL_PORT, when it is
\* set, is a number, also when a port option overrides it.
C1_PrecedenceWhenEnvPortIsNumber ==
    (/\ Called
     /\ OptionsKnown
     /\ PortArgsAreNumbers
     /\ EnvPortIsNumber
     /\ ~CredentialAbsent)
        => /\ outcome.kind = "return"
           /\ \A key \in {"host", "port", "user", "password", "database",
                          "charset", "collation", "sql_mode"} :
                 /\ key \in DOMAIN outcome.config
                 /\ outcome.config[key] = SelectedValue(key)

Finished(h) == pc = "idle" /\ handler = h /\ outcome.kind # "none"

ConfigResolves == get_db_config(environ, argv).kind = "return"

\* the uri starts with the eight characters mysql://
HasScheme(uri) ==
    /\ Len(uri) >= 8
    /\ <<uri[1], uri[2], uri[3], uri[4], uri[5], uri[6], uri[7], uri[8]>>
           = <<"m", "y", "s", "q", "l", ":", "/", "/">>

\* the request carries a query that is not the empty string
HasQuery ==
    /\ "query" \in DOMAIN request.arguments
    /\ request.arguments["query"] # S_empty

\* C3: a call_tool for execute_sql with a non-empty query never raises a
\* database failure: when the connect, the execute, the fetch or the commit
\* fails, the call returns one text item that reports the failure, and every
\* call that reaches the database returns exactly one text item; a call that
\* raises has tried no connection, and raises what get_db_config raises.
C3_DbFailureReturnsText ==
    (Finished("call_tool") /\ request.name = "execute_sql" /\ HasQuery)
        => /\ dbFailed =>
                 /\ outcome.kind = "return"
                 /\ Len(outcome.texts) = 1
                 /\ outcome.texts[1].form \in {"error", "fetch_error"}
           /\ attempts > 0 =>
                 outcome.kind = "return" /\ Len(outcome.texts) = 1
           /\ outcome.kind # "return" =>
                 /\ attempts = 0
                 /\ outcome = get_db_config(environ, argv)

\* a commit has failed on an open connection and call_tool has returned the
\* failure as its one text item
C3_Witness ==
    /\ Finished("call_tool")
    /\ request.name = "execute_sql"
    /\ HasQuery
    /\ dbFailed
    /\ opened = 1
    /\ stmt.words = <<"DELETE">>
    /\ stmt.table \in DOMAIN db \cap DOMAIN dbAtStart
    /\ db[stmt.table] = 0
    /\ dbAtStart[stmt.table] > 0
    /\ outcome = ReturnTexts(<<TextError>>)

\* C4: list_resources never propagates a database failure: when the connect,
\* the query or the fetch fails it returns the empty list, which is also what
\* it returns for a database without tables; when the listing succeeds it
\* returns one resource per table, with uri mysql://<table>/data.
C4_ListSwallowsDbFailure ==
    Finished("list_resources")
        => /\ dbFailed => outcome = ReturnResources(<<>>)
           /\ attempts > 0 => outcome.kind = "return"
           /\ outcome.kind # "return" =>
                 attempts = 0 /\ outcome = get_db_config(environ, argv)
           /\ (outcome.kind = "return" /\ DOMAIN dbAtStart = {})
                 => outcome = ReturnResources(<<>>)
           /\ (outcome.kind = "return" /\ ~dbFailed) =>
                 /\ Len(outcome.resources) = Cardinality(DOMAIN dbAtStart)
                 /\ \A t \in DOMAIN dbAtStart :
                       \E i \in 1..Len(outcome.resources) :
                           outcome.resources[i].uri
                               = <<"m","y","s","q","l",":","/","/">> \o t
                                    \o <<"/","d","a","t","a">>

\* a listing of a database that has tables has failed, and list_resources
\* has returned the empty list
C4_Witness ==
    /\ Finished("list_resources")
    /\ dbFailed
    /\ DOMAIN db # {}
    /\ outcome = ReturnResources(<<>>)

\* C5 as claimed: read_resource surfaces its errors: for a uri without the
\* mysql:// scheme it raises the invalid scheme error and tries no
\* connection, and when a driver call fails it raises the database error.
C5_ReadSurfacesErrors ==
    Finished("read_resource")
        => /\ ~HasScheme(request.uri) =>
                 /\ outcome = Raise("ValueError", MsgInvalidScheme)
                 /\ attempts = 0
           /\ dbFailed => outcome = Raise("RuntimeError", MsgDatabaseError)

\* C5, what the code does: for a uri without the mysql:// scheme read_resource
\* returns no content and tries no connection: it raises the invalid scheme
\* error when the configuration resolves, and ends as get_db_config does when
\* it does not; when a driver call fails it raises the database error; it
\* returns content only when no driver call has failed.
C5_ReadSurfacesErrorsOnceConfigured ==
    Finished("read_resource")
        => /\ ~HasScheme(request.uri) =>
                 /\ attempts = 0
                 /\ opened = 0
                 /\ outcome =
                       IF ConfigResolves
                       THEN Raise("ValueError", MsgInvalidScheme)
                       ELSE get_db_config(environ, argv)
           /\ dbFailed => outcome = Raise("RuntimeError", MsgDatabaseError)
           /\ outcome.kind = "return" =>
                 /\ ~dbFailed
                 /\ HasScheme(request.uri)
                 /\ Len(outcome.texts) = 1
                 /\ outcome.texts[1].form = "rows"

\* C6 as claimed: in every state of the configuration and the environment,
\* call_tool for execute_sql with a missing or empty query raises the "query
\* is required" error, with no connection tried.
C6_MissingQueryRejected ==
    (Finished("call_tool") /\ request.name = "execute_sql" /\ ~HasQuery)
        => /\ outcome = Raise("ValueError", MsgQueryRequired)
           /\ attempts = 0

\* C6, what the code does: call_tool for execute_sql with a missing or empty
\* query tries no connection; it raises the "query is required" error in every
\* state in which the configuration resolves, and ends as get_db_config does
\* in the others.
C6_MissingQueryRejectedOnceConfigured ==
    (Finished("call_tool") /\ request.name = "execute_sql" /\ ~HasQuery)
        => /\ attempts = 0
           /\ opened = 0
           /\ outcome =
                 IF ConfigResolves THEN Raise("ValueError", MsgQueryRequired)
                 ELSE get_db_config(environ, argv)

\* C7 as claimed: call_tool with a name other than execute_sql raises the
\* "unknown tool" error whatever its arguments are, with no connection tried.
C7_UnknownToolRejected ==
    (Finished("call_tool") /\ request.name # "execute_sql")
        => /\ outcome = Raise("ValueError", MsgUnknownTool)
           /\ attempts = 0

\* C7, what the code does: call_tool with a name other than execute_sql tries
\* no connection, whatever its arguments are; it raises the "unknown tool"
\* error when the configuration resolves, and ends as get_db_config does when
\* it does not.
C7_UnknownToolRejectedOnceConfigured ==
    (Finished("call_tool") /\ request.name # "execute_sql")
        => /\ attempts = 0
           /\ opened = 0
           /\ outcome =
                 IF ConfigResolves THEN Raise("ValueError", MsgUnknownTool)
                 ELSE get_db_config(environ, argv)

\* the last finished request returned rows of table t
ReadRows(t) ==
    /\ pc = "idle"
    /\ handler \in {"read_resource", "call_tool"}
    /\ outcome.kind = "return"
    /\ Len(outcome.texts) = 1
    /\ outcome.texts[1].form = "rows"
    /\ outcome.texts[1].table = t

\* C8: when call_tool returns its rows-affected message, it has committed,
\* the database holds the statement's change, and the message carries the
\* statement's affected-row count; the request after it, on a connection of
\* its own, reads the table as the statement left it.
C8_CommittedBeforeReturn ==
    /\ (Finished("call_tool") /\ outcome.kind = "return"
            /\ outcome.texts[1].form = "affected")
          => LET t == stmt.table
                 w == stmt.words
                 n == outcome.texts[1].rowcount
             IN  /\ didCommit
                 /\ Len(outcome.texts) = 1
                 /\ w \in {<<"INSERT">>, <<"DELETE">>, <<"CREATE">>, <<"DROP">>}
                 /\ w = <<"INSERT">> => db[t] = dbAtStart[t] + 1 /\ n = 1
                 /\ w = <<"DELETE">> => db[t] = 0 /\ n = dbAtStart[t]
                 /\ w = <<"CREATE">> => t \in DOMAIN db /\ db[t] = 0 /\ n = 0
                 /\ w = <<"DROP">> => t \notin DOMAIN db /\ n = 0
    /\ (prevWrite.valid /\ pc = "idle")
          => LET t == prevWrite.stmt.table
                 w == prevWrite.stmt.words
             IN  /\ (w = <<"INSERT">> /\ ReadRows(t)) =>
                       /\ outcome.texts[1].nrows = prevWrite.before[t] + 1
                       /\ opened = 1
                 /\ (w \in {<<"DELETE">>, <<"CREATE">>} /\ ReadRows(t)) =>
                       outcome.texts[1].nrows = 0
                 /\ w = <<"DROP">> => ~ReadRows(t)

\* an INSERT has returned its rows-affected message and the next request has
\* read the table
C8_Witness ==
    /\ prevWrite.valid
    /\ prevWrite.stmt.words = <<"INSERT">>
    /\ handler = "read_resource"
    /\ ReadRows(prevWrite.stmt.table)

\* C9: a handler opens at most one connection; a connection that is open
\* belongs to the request that runs and is the one its driver calls use; no
\* connection is open when no handler runs.
C9_ConnectionScoped ==
    /\ opened <= 1
    /\ pc = "idle" => conns = {} /\ conn = NoConn
    /\ \A c \in conns : c = conn /\ c.req = nReq
    /\ pc \in {"execute", "fetch_tables", "fetch_rows", "commit"} =>
          conn \in conns /\ cursor.open

\* a second request has left its with blocks by an exception, after it had
\* opened its connection
C9_Witness ==
    /\ Finished("read_resource")
    /\ nReq = 2
    /\ opened = 1
    /\ outcome.kind = "raise"
    /\ conns = {}

\* the read_resource that runs, or ran last, got as far as its query
ReadQueried == handler = "read_resource" /\ (pc # "idle" \/ attempts > 0)

\* C10 as claimed: for every table T, with or without a / in its name, whose
\* resource list_resources returned, read_resource of that resource's uri
\* queries table T.
C10_ListReadRoundTrip ==
    (ReadQueried /\ request.uri \in listed)
        => \A T \in TableNames :
               request.uri = <<"m","y","s","q","l",":","/","/">> \o T
                                \o <<"/","d","a","t","a">>
                   => stmt.table = T

\* C10 as amended: for every table T without a / in its name whose resource
\* list_resources returned, read_resource of that resource's uri queries
\* table T; for a name with a / it queries the part before the first /.
C10_ListReadRoundTripNoSlash ==
    (ReadQueried /\ request.uri \in listed)
        => \A T \in TableNames :
               request.uri = <<"m","y","s","q","l",":","/","/">> \o T
                                \o <<"/","d","a","t","a">>
                   => IF \A i \in 1..Len(T) : T[i] # "/"
                      THEN stmt.table = T
                      ELSE /\ stmt.table # T
                           /\ \E n \in 1..Len(T) :
                                 /\ T[n] = "/"
                                 /\ stmt.table = SubSeq(T, 1, n - 1)
                                 /\ \A i \in 1..(n - 1) : T[i] # "/"

\* list_resources has returned the resource of table a, and read_resource
\* has read that resource
C10_Witness ==
    /\ Finished("read_resource")
    /\ request.uri = ResourceUri(T_a)
    /\ request.uri \in listed
    /\ outcome.kind = "return"

=============================================================================
